---------------------------- MODULE Spec2Model ----------------------------
(***************************************************************************)
(* Model of the quest-gen command (src/source/commands/quest-gen.ts) and   *)
(* of its entry point (src/source/index.ts).                               *)
(*                                                                         *)
(* Five specifications share the variables:                                *)
(*   Spec        the batch runner of execute(): one generation task per    *)
(*               document under Promise.all, each pushing its questions    *)
(*               and rewriting the output file with fs.writeFile;          *)
(*   SpecIngest  loadDocuments(): directory fingerprint, cache lookup in   *)
(*               the temporary directory, loader, preprocessing, cache     *)
(*               store, run after run over a directory that changes        *)
(*               between the runs;                                         *)
(*   SpecText    generateQuestions' prompt and parser and                  *)
(*               preProcessDocuments, applied to short strings;            *)
(*   SpecCli     one run from the command line: the options of register(), *)
(*               the validation of execute(), loadDocuments, generation;   *)
(*   SpecHung    the batch runner with a completion call that never        *)
(*               settles, under fairness.                                  *)
(*                                                                         *)
(* Strings are sequences of one-character strings.  Sequences are 1-based: *)
(* document i of the model is the document at index i-1 of the code.       *)
(***************************************************************************)
EXTENDS Integers, Sequences, FiniteSets, TLC

(***************************************************************************)
(* Bounds of the model.                                                    *)
(***************************************************************************)
MaxFiles == 2

MaxQuestions == 2

MaxEvents == 4

VARIABLES
  \* ---- the run of execute() ----
  proc,           \* where the process is: see ProcStates
  documents,      \* const documents (quest-gen.ts:125)
  taskPc,         \* position of each callback of documents.map (133-150)
  generated,      \* each callback's const generatedQuestions (137)
  payload,        \* the data argument of each callback's fs.writeFile (149)
  questions,      \* const questions: string[][] (131)
  promiseAll,     \* state of the Promise.all promise (133)
  outputFile,     \* bytes of options.output on disk
  statusLine,     \* what spinner.succeed printed (153-157), or NoStatus
  observed,       \* history: documents whose result a reader of the output
                  \* file has been able to see in a parseable file content
  \* ---- loadDocuments() and its environment ----
  optCache,       \* options.cache
  dir,            \* the document directory: file -> [present, mtime, content]
  tmp,            \* the QG_<id>.bin files of os.tmpdir(): id -> bytes
  loadPc,         \* position inside loadDocuments
  pathHash,       \* const pathHash (246)
  processedDocuments, \* const processedDocuments (258)
  lookup,         \* history: how the cache lookup of the current run ended
  loaderCalls,    \* history: loader.load() calls of the current run
  cacheReads,     \* history: readTMP calls of the current run
  cacheWrites,    \* history: cacheTMP calls of the current run
  hashCalls,      \* history: getDirectoryHash calls of the current run
  tmpAtStart,     \* history: tmp when the current run started
  putDocs,        \* history: id -> the documents cacheTMP stored under id
  putDir,         \* history: id -> the directory they were loaded from
  sincePut,       \* history: "none" before any run has stored a cache entry;
                  \* then whether a file was added, removed or re-timestamped
                  \* since the last run that stored one ("same", "changed")
  events,         \* number of runs started and of changes made to the
                  \* directory so far
  \* ---- the callbacks of documents.map, further ----
  calls,          \* history: openai.call calls made for each document
  hung,           \* the documents whose openai.call never settles
  \* ---- the command line and option validation ----
  argv,           \* the options given on the command line
  envKey,         \* process.env.OPENAI_API_KEY
  options,        \* the parameter of execute
  errorMessage,   \* what program.error printed, or NoError
  \* ---- generateQuestions and preProcessDocuments on their own ----
  applied,        \* which function has been applied
  document,       \* the document given to it
  questionsPerDocument, \* the question target given to it
  completion,     \* what openai.call returned
  prompt,         \* const prompt (quest-gen.ts:283)
  parsedQuestions, \* what generateQuestions returned
  preprocessed    \* what preProcessDocuments returned

batchVars == <<proc, documents, taskPc, generated, payload, questions,
               promiseAll, outputFile, statusLine, observed>>

ingestVars == <<optCache, dir, tmp, loadPc, pathHash, processedDocuments,
                lookup, loaderCalls, cacheReads, cacheWrites, hashCalls,
                tmpAtStart, putDocs, putDir, sincePut, events>>

taskVars == <<calls, hung>>

cliVars == <<argv, envKey, options, errorMessage>>

textVars == <<applied, document, questionsPerDocument, completion, prompt,
              parsedQuestions, preprocessed>>

vars == <<batchVars, ingestVars, taskVars, cliVars, textVars>>

(***************************************************************************)
(* Strings                                                                 *)
(***************************************************************************)
NL == "\n"

SP == " "

IsWhitespace(c) == c \in {NL, SP}

RECURSIVE TrimStart(_)
TrimStart(s) ==
  IF s = <<>> THEN <<>>
  ELSE IF IsWhitespace(Head(s)) THEN TrimStart(Tail(s)) ELSE s

RECURSIVE TrimEnd(_)
TrimEnd(s) ==
  IF s = <<>> THEN <<>>
  ELSE IF IsWhitespace(s[Len(s)]) THEN TrimEnd(SubSeq(s, 1, Len(s) - 1)) ELSE s

\* A trim that removes one whitespace character at most at each end.
Trim_OneEach(s) ==
  LET t == IF s # <<>> /\ IsWhitespace(Head(s)) THEN Tail(s) ELSE s
  IN  IF t # <<>> /\ IsWhitespace(t[Len(t)]) THEN SubSeq(t, 1, Len(t) - 1)
      ELSE t

\* String.prototype.trim()
Trim(s) == TrimEnd(TrimStart(s))

\* s.replace(/\n{2,}/g, "\n"): every maximal run of two or more newlines
\* becomes one newline.
RECURSIVE CollapseNewlines(_)
CollapseNewlines(s) ==
  IF Len(s) < 2 THEN s
  ELSE IF Head(s) = NL /\ s[2] = NL THEN CollapseNewlines(Tail(s))
  ELSE <<Head(s)>> \o CollapseNewlines(Tail(s))


(***************************************************************************)
(* JSON text.  A file's bytes are modelled as a sequence of tokens: the    *)
(* brackets and commas of the top-level array, and one token per element   *)
(* holding that element's own JSON text (modelled by the value it denotes).*)
(* A write puts tokens at positions of the file, so that a short text      *)
(* written over a longer one leaves the longer one's tail behind.          *)
(***************************************************************************)
LB == [t |-> "["]

RB == [t |-> "]"]

COMMA == [t |-> ","]

Elem(v) == [t |-> "value", v |-> v]

RECURSIVE JoinElems(_)
JoinElems(arr) ==
  IF arr = <<>> THEN <<>>
  ELSE IF Len(arr) = 1 THEN <<Elem(arr[1])>>
  ELSE <<Elem(arr[1]), COMMA>> \o JoinElems(Tail(arr))

\* JSON.stringify of an array whose elements are JSON-safe values.
JSONstringify(arr) == <<LB>> \o JoinElems(arr) \o <<RB>>

\* Is text the JSON text of an array: "[" (value ("," value)*)? "]" and
\* nothing after it.
IsJSONArray(text) ==
  /\ Len(text) >= 2
  /\ text[1].t = "["
  /\ text[Len(text)].t = "]"
  /\ LET n == Len(text) - 2
     IN  /\ n = 0 \/ n % 2 = 1
         /\ \A k \in 1..n :
              text[k + 1].t = (IF k % 2 = 1 THEN "value" ELSE ",")

\* JSON.parse of a text for which IsJSONArray holds (it throws otherwise).
JSONparse(text) ==
  [k \in 1..((Len(text) - 1) \div 2) |-> text[2 * k].v]

\* The file after writing data at offset 0 of a file holding old, without
\* truncating: the bytes of old beyond the data stay.
Overlay(old, data) ==
  IF Len(data) >= Len(old) THEN data
  ELSE data \o SubSeq(old, Len(data) + 1, Len(old))

(***************************************************************************)
(* The batch runner: execute(), lines 131-157, and main()                  *)
(***************************************************************************)
NoStatus == [questions |-> -1, documents |-> -1]

ProcStates ==
  {"idle", "parsed", "exited", "loading", "loaded", "generating", "succeeded",
   "aborted"}

Docs == 1..Len(documents)

\* The k-th question the completion client wrote about document i.
Question(i, k) == <<i, k>>

\* One line of a completion: a numbered question, or a blank line.
BlankLine == <<>>

\* The completion with questions 1..n about document i, one per line.
QuestionLines(i, n) == [k \in 1..n |-> <<Question(i, k)>>]

\* The raw completions the client may return for document i, as lines
\* (the segments of split("\n")): up to MaxQuestions questions, bare, or
\* followed by a blank line, or separated by blank lines.
RawCompletions(i) ==
  {<<BlankLine>>} \cup
  UNION { {QuestionLines(i, n),
           QuestionLines(i, n) \o <<BlankLine>>,
           [k \in 1..(2 * n) |-> IF k % 2 = 1 THEN <<Question(i, (k + 1) \div 2)>>
                                 ELSE BlankLine]}
          : n \in 1..MaxQuestions }

\* generateQuestions, lines 288-297, on the lines of a completion: the
\* segments that are empty after trimming are filtered out, the others kept
\* in order.
ParseQuestions(lines) ==
  LET kept == SelectSeq(lines, LAMBDA l : Len(l) > 0)
  IN  [k \in 1..Len(kept) |-> kept[k][1]]

RECURSIVE FlatLength(_)
FlatLength(qs) ==
  IF qs = <<>> THEN 0 ELSE Len(Head(qs)) + FlatLength(Tail(qs))

\* The documents whose generated questions are an entry of the JSON array
\* that a reader of the file parses; none when the file does not parse.
Visible(file) ==
  IF IsJSONArray(file)
  THEN {i \in Docs : taskPc[i] \in {"opening", "writing", "done"}
                     /\ \E k \in 1..Len(JSONparse(file)) :
                          JSONparse(file)[k] = generated[i]}
  ELSE {}

(***************************************************************************)
(* Documents, the directory and the loader                                 *)
(***************************************************************************)
FileNames == <<"a.txt", "b.pdf", "c.txt", "d.pdf">>

FileIds == {FileNames[k] : k \in 1..MaxFiles}

\* Raw file contents: one that preprocessing leaves alone, one it changes.
Contents == {<<"a">>, <<NL, "a", NL, NL, "b", SP>>}

Absent == [present |-> FALSE, mtime |-> 0, content |-> <<>>]

FileStates ==
  {Absent} \cup
  [present : {TRUE}, mtime : 1..MaxEvents, content : Contents]

DirStates == [FileIds -> FileStates]

\* JavaScript values of the metadata fields.
Undefined == [kind |-> "undefined", s |-> ""]

Str(s) == [kind |-> "string", s |-> s]

\* obj[k] in JavaScript: undefined for a key the object does not have.
Field(obj, k) == IF k \in DOMAIN obj THEN obj[k] ELSE Undefined

MetaKeys == {"source", "pdfMetadata"}

IsPdf(f) == f \in {"b.pdf", "d.pdf"}

\* The per-extension loaders of lines 232-240: a text file gives metadata
\* {source}; a PDF gives metadata with further fields, of which one is
\* undefined when the PDF carries no metadata stream.
LoaderMetadata(f) ==
  IF IsPdf(f)
  THEN [source |-> Str(f), pdfMetadata |-> Undefined]
  ELSE [source |-> Str(f)]

RECURSIVE LoadFrom(_, _)
LoadFrom(d, k) ==
  IF k > Len(FileNames) THEN <<>>
  ELSE LET f == FileNames[k]
       IN  (IF f \in FileIds /\ d[f].present
            THEN <<[pageContent |-> d[f].content, metadata |-> LoaderMetadata(f)]>>
            ELSE <<>>) \o LoadFrom(d, k + 1)

\* loader.load(): one raw document per file of the directory.
Load(d) == LoadFrom(d, 1)

\* preProcessDocuments, lines 165-172: the content with newline runs
\* collapsed, then trimmed; the other fields spread unchanged.
preProcessDocuments(docs) ==
  [i \in 1..Len(docs) |->
     [docs[i] EXCEPT !.pageContent = Trim(CollapseNewlines(docs[i].pageContent))]]

\* What loadDocuments can return: the preprocessed documents of a directory
\* (of any set of files, each with the content that preprocessing changes).
DocumentSets ==
  {preProcessDocuments(Load(d)) :
     d \in {d \in DirStates :
              \A f \in FileIds :
                d[f].present => d[f].mtime = 1 /\ d[f].content # <<"a">>}}

(***************************************************************************)
(* Actions of the batch runner                                             *)
(***************************************************************************)

\* A callback that would start its call only when the callbacks of the
\* documents before it have finished.
Calling_AfterEarlier(i) ==
  taskPc[i] = "calling" /\ \A j \in 1..(i - 1) : taskPc[j] = "done"

\* Callback i is at the await of line 137: documents.map (line 134) has run
\* every callback up to there, whatever the other callbacks are doing.
Calling(i) == taskPc[i] = "calling"

\* Lines 131-141: const questions = [], then documents.map runs every
\* callback up to its first await: each has built its prompt and called
\* openai.call.  Promise.all of no promises is fulfilled at once.
LaunchGeneration ==
  /\ proc = "loaded"
  /\ proc' = "generating"
  /\ questions' = <<>>
  /\ taskPc' = [i \in Docs |-> "calling"]
  /\ generated' = [i \in Docs |-> <<>>]
  /\ payload' = [i \in Docs |-> <<>>]
  /\ promiseAll' = IF documents = <<>> THEN "fulfilled" ELSE "pending"
  /\ calls' = [i \in Docs |-> 1]
  /\ UNCHANGED <<documents, outputFile, statusLine, observed, ingestVars,
                 hung, cliVars, textVars>>

\* A callback that puts its questions in front of the results.
CompletionReturns_Prepend(i, raw) ==
  /\ proc = "generating"
  /\ Calling(i)
  /\ generated' = [generated EXCEPT ![i] = ParseQuestions(raw)]
  /\ questions' = <<generated'[i]>> \o questions
  /\ payload' = [payload EXCEPT ![i] = JSONstringify(questions')]
  /\ taskPc' = [taskPc EXCEPT ![i] = "opening"]
  /\ UNCHANGED <<proc, documents, promiseAll, outputFile, statusLine,
                 observed, ingestVars, taskVars, cliVars, textVars>>

\* Lines 137-149 of callback i: openai.call returns raw, generateQuestions
\* parses it, the callback pushes the questions and calls fs.writeFile with
\* the JSON text of the results as they stand now.
CompletionReturns(i, raw) ==
  /\ proc = "generating"
  /\ Calling(i)
  /\ generated' = [generated EXCEPT ![i] = ParseQuestions(raw)]
  /\ questions' = Append(questions, generated'[i])
  /\ payload' = [payload EXCEPT ![i] = JSONstringify(questions')]
  /\ taskPc' = [taskPc EXCEPT ![i] = "opening"]
  /\ UNCHANGED <<proc, documents, promiseAll, outputFile, statusLine,
                 observed, ingestVars,
                 taskVars, cliVars, textVars>>

\* openai.call of callback i rejects: generateQuestions and the callback
\* reject, and Promise.all rejects with the first rejection (line 133).
CompletionFails(i) ==
  /\ proc = "generating"
  /\ Calling(i)
  /\ taskPc' = [taskPc EXCEPT ![i] = "failed"]
  /\ promiseAll' = IF promiseAll = "pending" THEN "rejected" ELSE promiseAll
  /\ UNCHANGED <<proc, documents, generated, payload, questions, outputFile,
                 statusLine, observed, ingestVars,
                 taskVars, cliVars, textVars>>

\* fs.writeFile of callback i (line 149), first half: the file is opened
\* with flag "w", which truncates it.
WriteOpen(i) ==
  /\ proc = "generating"
  /\ taskPc[i] = "opening"
  /\ outputFile' = <<>>
  /\ taskPc' = [taskPc EXCEPT ![i] = "writing"]
  /\ observed' = observed \cup Visible(outputFile')
  /\ UNCHANGED <<proc, documents, generated, payload, questions, promiseAll,
                 statusLine, ingestVars,
                 taskVars, cliVars, textVars>>

\* fs.writeFile of callback i, second half: the data is written from the
\* start of the file, the file is closed and the callback's promise is
\* fulfilled; Promise.all is fulfilled with the last of them.
WriteData(i) ==
  /\ proc = "generating"
  /\ taskPc[i] = "writing"
  /\ outputFile' = Overlay(outputFile, payload[i])
  /\ taskPc' = [taskPc EXCEPT ![i] = "done"]
  /\ promiseAll' = IF promiseAll = "pending" /\ \A j \in Docs : taskPc'[j] = "done"
                   THEN "fulfilled" ELSE promiseAll
  /\ observed' = observed \cup Visible(outputFile')
  /\ UNCHANGED <<proc, documents, generated, payload, questions, statusLine,
                 ingestVars,
                 taskVars, cliVars, textVars>>

\* Lines 153-157: after Promise.all, the status line with the number of
\* questions and of documents; execute returns and the process ends.
Succeed ==
  /\ proc = "generating"
  /\ promiseAll = "fulfilled"
  /\ statusLine' = [questions |-> FlatLength(questions),
                    documents |-> Len(documents)]
  /\ proc' = "succeeded"
  /\ UNCHANGED <<documents, taskPc, generated, payload, questions, promiseAll,
                 outputFile, observed, ingestVars,
                 taskVars, cliVars, textVars>>

\* index.ts 36-40: the rejection of Promise.all leaves execute and main as
\* a rejection nobody handles: the process ends without reaching line 153,
\* at once on the runtimes that end a process on an unhandled rejection,
\* or later, and whatever the other callbacks were doing is abandoned.
UnhandledRejection ==
  /\ proc = "generating"
  /\ promiseAll = "rejected"
  /\ proc' = "aborted"
  /\ UNCHANGED <<documents, taskPc, generated, payload, questions, promiseAll,
                 outputFile, statusLine, observed, ingestVars,
                 taskVars, cliVars, textVars>>

\* No cache file in the temporary directory.
NoFiles == [id \in {} |-> <<>>]

IngestIdle ==
  /\ optCache = TRUE
  /\ dir = [f \in FileIds |-> Absent]
  /\ tmp = NoFiles
  /\ loadPc = "idle"
  /\ pathHash = <<>>
  /\ processedDocuments = <<>>
  /\ lookup = "none"
  /\ loaderCalls = 0
  /\ cacheReads = 0
  /\ cacheWrites = 0
  /\ hashCalls = 0
  /\ tmpAtStart = NoFiles
  /\ putDocs = NoFiles
  /\ putDir = NoFiles
  /\ sincePut = "none"
  /\ events = 0

NoOptions == [k \in {} |-> Undefined]

NoError == ""

\* No command line has been parsed.
CliIdle ==
  /\ argv = NoOptions
  /\ envKey = Undefined
  /\ options = NoOptions
  /\ errorMessage = NoError

NoDocument == [pageContent |-> <<>>, metadata |-> NoOptions]

\* No function has been applied on its own.
TextIdle ==
  /\ applied = "none"
  /\ document = NoDocument
  /\ questionsPerDocument = 0
  /\ completion = <<>>
  /\ prompt = <<>>
  /\ parsedQuestions = <<>>
  /\ preprocessed = <<>>

\* The batch runner starts from any document set loadDocuments returns.
Init ==
  /\ proc = "loaded"
  /\ documents \in DocumentSets
  /\ taskPc = [i \in Docs |-> "idle"]
  /\ generated = [i \in Docs |-> <<>>]
  /\ payload = [i \in Docs |-> <<>>]
  /\ questions = <<>>
  /\ promiseAll = "pending"
  /\ outputFile = <<>>
  /\ statusLine = NoStatus
  /\ observed = {}
  /\ IngestIdle
  /\ calls = [i \in Docs |-> 0]
  /\ hung = {}
  /\ CliIdle
  /\ TextIdle

Next ==
  \/ LaunchGeneration
  \/ \E i \in Docs : \E raw \in RawCompletions(i) : CompletionReturns(i, raw)
  \/ \E i \in Docs : CompletionFails(i)
  \/ \E i \in Docs : WriteOpen(i)
  \/ \E i \in Docs : WriteData(i)
  \/ Succeed
  \/ UnhandledRejection

Spec == Init /\ [][Next]_vars

(***************************************************************************)
(* Ingestion: loadDocuments, getDirectoryHash and the cache files          *)
(***************************************************************************)

\* A serialisation that keeps only the content.
DocumentToJSON_ContentOnly(doc) ==
  [pageContent |-> doc.pageContent, metadata |-> [k \in {} |-> Undefined]]

\* JSON.stringify of one document (line 264): a property whose value is
\* undefined is left out of the text.
DocumentToJSON(doc) ==
  [pageContent |-> doc.pageContent,
   metadata |-> [k \in {k \in DOMAIN doc.metadata :
                          doc.metadata[k].kind # "undefined"}
                 |-> doc.metadata[k]]]

\* Buffer.from(JSON.stringify(processedDocuments)), line 264.
StringifyDocuments(docs) ==
  JSONstringify([i \in 1..Len(docs) |-> DocumentToJSON(docs[i])])

\* Two documents with the same content and, field for field, the same
\* metadata.
SameDocument(d1, d2) ==
  /\ d1.pageContent = d2.pageContent
  /\ \A k \in MetaKeys : Field(d1.metadata, k) = Field(d2.metadata, k)

SameDocuments(ds1, ds2) ==
  /\ Len(ds1) = Len(ds2)
  /\ \A i \in 1..Len(ds1) : SameDocument(ds1[i], ds2[i])

\* hash, lines 197-199: MD5 taken as injective (collisions aside).
hash(input) == [md5 |-> input]

\* A join that leaves the modification times out.
JoinFileInfos_NamesOnly(d, files) == files

\* fileInfos.join(","), line 219, of the strings `${file}:${mtimeMs}`.
RECURSIVE JoinFileInfos(_, _)
JoinFileInfos(d, files) ==
  IF files = <<>> THEN <<>>
  ELSE <<Head(files), ":", d[Head(files)].mtime>>
       \o (IF Len(files) > 1 THEN <<",">> ELSE <<>>)
       \o JoinFileInfos(d, Tail(files))

\* What glob may return for the directory (lines 207-210): its files, each
\* once, in an order glob does not promise.  The pattern is the absolute
\* resolve(path, "**/*"), so each name stands for the absolute path of the
\* file under the one location the model gives the directory.
Enumerations(d) ==
  LET present == {f \in FileIds : d[f].present}
  IN  {files \in [1..Cardinality(present) -> present] :
         \A i, j \in 1..Cardinality(present) : files[i] = files[j] => i = j}

\* getDirectoryHash, lines 206-220, when glob returns files.
getDirectoryHash(d, files) == hash(JoinFileInfos(d, files))

\* A cacheTMP that leaves an existing file alone.
cacheTMP_KeepsExisting(files, id, data) ==
  IF id \in DOMAIN files THEN files
  ELSE [x \in DOMAIN files \cup {id} |-> IF x = id THEN data ELSE files[x]]

\* cacheTMP, lines 179-181: the file QG_<id>.bin holds data afterwards.
cacheTMP(files, id, data) ==
  [x \in DOMAIN files \cup {id} |-> IF x = id THEN data ELSE files[x]]

\* readTMP followed by JSON.parse (lines 249-253) succeeds: the file
\* exists and its content parses.
CacheUsable(files, id) == id \in DOMAIN files /\ IsJSONArray(files[id])

\* A loadDocuments that ignores options.cache.
UseCache_Always == TRUE

\* The condition of line 242, negated: the cache is used.
UseCache == optCache

\* execute is called, with options.cache either way; option validation
\* passes and loadDocuments is entered (lines 90-129, 227-240).
StartRun(cache) ==
  /\ proc = "idle"
  /\ events < MaxEvents
  /\ events' = events + 1
  /\ proc' = "loading"
  /\ optCache' = cache
  /\ loadPc' = "start"
  /\ tmpAtStart' = tmp
  /\ lookup' = "none"
  /\ loaderCalls' = 0
  /\ cacheReads' = 0
  /\ cacheWrites' = 0
  /\ hashCalls' = 0
  /\ pathHash' = <<>>
  /\ processedDocuments' = <<>>
  /\ UNCHANGED <<dir, tmp, putDocs, putDir, sincePut, documents,
                 taskPc, generated, payload, questions, promiseAll,
                 outputFile, statusLine, observed,
                 taskVars, cliVars, textVars>>

\* Lines 242-244: without the cache, load, preprocess, return.
LoadWithoutCache ==
  /\ proc = "loading" /\ loadPc = "start"
  /\ ~UseCache
  /\ loaderCalls' = loaderCalls + 1
  /\ documents' = preProcessDocuments(Load(dir))
  /\ loadPc' = "returned"
  /\ proc' = "loaded"
  /\ UNCHANGED <<optCache, dir, tmp, pathHash, processedDocuments, lookup,
                 cacheReads, cacheWrites, hashCalls, tmpAtStart, putDocs,
                 putDir, sincePut, events, taskPc, generated, payload,
                 questions, promiseAll, outputFile, statusLine, observed,
                 taskVars, cliVars, textVars>>

\* Line 246: the fingerprint of the directory as glob enumerates it now.
ComputeHash(files) ==
  /\ proc = "loading" /\ loadPc = "start"
  /\ UseCache
  /\ hashCalls' = hashCalls + 1
  /\ pathHash' = getDirectoryHash(dir, files)
  /\ loadPc' = "read"
  /\ UNCHANGED <<optCache, dir, tmp, processedDocuments, lookup, loaderCalls,
                 cacheReads, cacheWrites, tmpAtStart, putDocs, putDir,
                 sincePut, events, batchVars,
                 taskVars, cliVars, textVars>>

\* Lines 248-253: the cache file is read and parsed; loadDocuments returns
\* what JSON.parse gives.
CacheHit ==
  /\ proc = "loading" /\ loadPc = "read"
  /\ CacheUsable(tmp, pathHash)
  /\ cacheReads' = cacheReads + 1
  /\ lookup' = "hit"
  /\ documents' = JSONparse(tmp[pathHash])
  /\ loadPc' = "returned"
  /\ proc' = "loaded"
  /\ UNCHANGED <<optCache, dir, tmp, pathHash, processedDocuments,
                 loaderCalls, cacheWrites, hashCalls, tmpAtStart, putDocs,
                 putDir, sincePut, events, taskPc, generated, payload,
                 questions, promiseAll, outputFile, statusLine, observed,
                 taskVars, cliVars, textVars>>

\* Lines 248-254: readFile or JSON.parse throws and the empty catch
\* swallows the error.
CacheMiss ==
  /\ proc = "loading" /\ loadPc = "read"
  /\ ~CacheUsable(tmp, pathHash)
  /\ cacheReads' = cacheReads + 1
  /\ lookup' = IF pathHash \in DOMAIN tmp THEN "unparseable" ELSE "missing"
  /\ loadPc' = "load"
  /\ UNCHANGED <<optCache, dir, tmp, pathHash, processedDocuments,
                 loaderCalls, cacheWrites, hashCalls, tmpAtStart, putDocs,
                 putDir, sincePut, events, batchVars,
                 taskVars, cliVars, textVars>>

\* Lines 258-260: load and preprocess.
LoadAndPreprocess ==
  /\ proc = "loading" /\ loadPc = "load"
  /\ loaderCalls' = loaderCalls + 1
  /\ processedDocuments' = preProcessDocuments(Load(dir))
  /\ loadPc' = "put"
  /\ UNCHANGED <<optCache, dir, tmp, pathHash, lookup, cacheReads,
                 cacheWrites, hashCalls, tmpAtStart, putDocs, putDir,
                 sincePut, events, batchVars,
                 taskVars, cliVars, textVars>>

\* Lines 262-269: the cache file is written whole and loadDocuments
\* returns the documents.
CachePut ==
  /\ proc = "loading" /\ loadPc = "put"
  /\ cacheWrites' = cacheWrites + 1
  /\ tmp' = cacheTMP(tmp, pathHash, StringifyDocuments(processedDocuments))
  /\ putDocs' = (pathHash :> processedDocuments) @@ putDocs
  /\ putDir' = (pathHash :> dir) @@ putDir
  /\ sincePut' = "same"
  /\ documents' = processedDocuments
  /\ loadPc' = "returned"
  /\ proc' = "loaded"
  /\ UNCHANGED <<optCache, dir, pathHash, processedDocuments, lookup,
                 loaderCalls, cacheReads, hashCalls, tmpAtStart, events,
                 taskPc, generated, payload, questions, promiseAll,
                 outputFile, statusLine, observed,
                 taskVars, cliVars, textVars>>

\* No process is left: what execute and loadDocuments held is gone.
ProcessGone ==
  /\ proc' = "idle"
  /\ loadPc' = "idle"
  /\ optCache' = TRUE
  /\ pathHash' = <<>>
  /\ processedDocuments' = <<>>
  /\ lookup' = "none"
  /\ loaderCalls' = 0
  /\ cacheReads' = 0
  /\ cacheWrites' = 0
  /\ hashCalls' = 0
  /\ tmpAtStart' = NoFiles

\* The process is killed while fs.writeFile of cacheTMP is under way: the
\* cache file holds the first n tokens of the text.
CrashDuringPut(n) ==
  /\ proc = "loading" /\ loadPc = "put"
  /\ n < Len(StringifyDocuments(processedDocuments))
  /\ tmp' = cacheTMP(tmp, pathHash,
                     SubSeq(StringifyDocuments(processedDocuments), 1, n))
  /\ ProcessGone
  /\ UNCHANGED <<dir, putDocs, putDir, sincePut, events, documents, taskPc,
                 generated, payload, questions, promiseAll, outputFile,
                 statusLine, observed,
                 taskVars, cliVars, textVars>>

\* Lines 262-265 when fs.writeFile of cacheTMP rejects because the file
\* cannot be opened (the temporary directory is read-only, or gone): the
\* await is in no try block, so loadDocuments rejects, execute rejects at
\* line 125 and main (index.ts 36-40) is left with a rejection nobody
\* handles.  Nothing is returned; generation is never reached.
CachePutFails ==
  /\ proc = "loading" /\ loadPc = "put"
  /\ cacheWrites' = cacheWrites + 1
  /\ loadPc' = "putFailed"
  /\ proc' = "aborted"
  /\ UNCHANGED <<optCache, dir, tmp, pathHash, processedDocuments, lookup,
                 loaderCalls, cacheReads, hashCalls, tmpAtStart, putDocs,
                 putDir, sincePut, events, documents, taskPc, generated,
                 payload, questions, promiseAll, outputFile, statusLine,
                 observed,
                 taskVars, cliVars, textVars>>

\* The process of a run that was aborted is gone.
AbortedRunEnds ==
  /\ proc = "aborted"
  /\ ProcessGone
  /\ UNCHANGED <<dir, tmp, putDocs, putDir, sincePut, events, documents,
                 taskPc, generated, payload, questions, promiseAll,
                 outputFile, statusLine, observed,
                 taskVars, cliVars, textVars>>

\* The rest of execute (generation, lines 131-157) touches neither the
\* directory nor the cache files; the process ends.
RunEnds ==
  /\ proc = "loaded"
  /\ ProcessGone
  /\ documents' = <<>>
  /\ UNCHANGED <<dir, tmp, putDocs, putDir, sincePut, events, taskPc,
                 generated, payload, questions, promiseAll, outputFile,
                 statusLine, observed,
                 taskVars, cliVars, textVars>>

(***************************************************************************)
(* The environment, between two runs                                       *)
(***************************************************************************)
Changed == IF sincePut = "none" THEN "none" ELSE "changed"

\* The clock of the file system: later than every modification time of
\* the directory.
Now == events + 1

\* A file is added.
AddFile(f, c) ==
  /\ proc = "idle"
  /\ events < MaxEvents
  /\ events' = events + 1
  /\ ~dir[f].present
  /\ dir' = [dir EXCEPT ![f] = [present |-> TRUE, mtime |-> Now, content |-> c]]
  /\ sincePut' = Changed
  /\ UNCHANGED <<optCache, tmp, loadPc, pathHash, processedDocuments, lookup,
                 loaderCalls, cacheReads, cacheWrites, hashCalls, tmpAtStart,
                 putDocs, putDir, batchVars,
                 taskVars, cliVars, textVars>>

RemoveFile(f) ==
  /\ proc = "idle"
  /\ events < MaxEvents
  /\ events' = events + 1
  /\ dir[f].present
  /\ dir' = [dir EXCEPT ![f] = Absent]
  /\ sincePut' = Changed
  /\ UNCHANGED <<optCache, tmp, loadPc, pathHash, processedDocuments, lookup,
                 loaderCalls, cacheReads, cacheWrites, hashCalls, tmpAtStart,
                 putDocs, putDir, batchVars,
                 taskVars, cliVars, textVars>>

\* A file is rewritten or touched: its modification time changes.
ModifyFile(f, c) ==
  /\ proc = "idle"
  /\ events < MaxEvents
  /\ events' = events + 1
  /\ dir[f].present
  /\ dir' = [dir EXCEPT ![f] = [present |-> TRUE, mtime |-> Now, content |-> c]]
  /\ sincePut' = Changed
  /\ UNCHANGED <<optCache, tmp, loadPc, pathHash, processedDocuments, lookup,
                 loaderCalls, cacheReads, cacheWrites, hashCalls, tmpAtStart,
                 putDocs, putDir, batchVars,
                 taskVars, cliVars, textVars>>

\* A file's content changes and its modification time does not (the time
\* is restored, or the change falls within the clock's resolution).
EditKeepingMtime(f, c) ==
  /\ proc = "idle"
  /\ events < MaxEvents
  /\ events' = events + 1
  /\ dir[f].present
  /\ c # dir[f].content
  /\ dir' = [dir EXCEPT ![f].content = c]
  /\ UNCHANGED <<optCache, tmp, loadPc, pathHash, processedDocuments, lookup,
                 loaderCalls, cacheReads, cacheWrites, hashCalls, tmpAtStart,
                 putDocs, putDir, sincePut, batchVars,
                 taskVars, cliVars, textVars>>

InitIngest ==
  /\ proc = "idle"
  /\ documents = <<>>
  /\ taskPc = <<>>
  /\ generated = <<>>
  /\ payload = <<>>
  /\ questions = <<>>
  /\ promiseAll = "pending"
  /\ outputFile = <<>>
  /\ statusLine = NoStatus
  /\ observed = {}
  /\ optCache = TRUE
  /\ dir = [f \in FileIds |-> Absent]
  /\ tmp = NoFiles
  /\ loadPc = "idle"
  /\ pathHash = <<>>
  /\ processedDocuments = <<>>
  /\ lookup = "none"
  /\ loaderCalls = 0
  /\ cacheReads = 0
  /\ cacheWrites = 0
  /\ hashCalls = 0
  /\ tmpAtStart = NoFiles
  /\ putDocs = NoFiles
  /\ putDir = NoFiles
  /\ sincePut = "none"
  /\ events = 0
  /\ calls = <<>>
  /\ hung = {}
  /\ CliIdle
  /\ TextIdle

NextIngest ==
  \/ \E cache \in BOOLEAN : StartRun(cache)
  \/ LoadWithoutCache
  \/ \E files \in Enumerations(dir) : ComputeHash(files)
  \/ CacheHit
  \/ CacheMiss
  \/ LoadAndPreprocess
  \/ CachePut
  \/ \E n \in 0..(2 * MaxFiles) : CrashDuringPut(n)
  \/ CachePutFails
  \/ AbortedRunEnds
  \/ RunEnds
  \/ \E f \in FileIds, c \in Contents : AddFile(f, c)
  \/ \E f \in FileIds : RemoveFile(f)
  \/ \E f \in FileIds, c \in Contents : ModifyFile(f, c)
  \/ \E f \in FileIds, c \in Contents : EditKeepingMtime(f, c)

SpecIngest == InitIngest /\ [][NextIngest]_vars

(***************************************************************************)
(* Properties of the batch runner (checked under Spec)                     *)
(***************************************************************************)
Completed == {i \in Docs : taskPc[i] \in {"opening", "writing", "done"}}

Failed == {i \in Docs : taskPc[i] = "failed"}

RunEnded == proc \in {"succeeded", "aborted"}

IsPrefix(s, t) == Len(s) <= Len(t) /\ SubSeq(t, 1, Len(s)) = s

\* C1: when a run has finished, the entry at index i of the results, in
\* memory and in the output file when it parses, is what was generated for
\* input document i.
C1_ResultsInInputOrder ==
  proc = "succeeded" =>
    /\ \A i \in 1..Len(questions) : questions[i] = generated[i]
    /\ IsJSONArray(outputFile) =>
         \A i \in 1..Len(JSONparse(outputFile)) :
           i \in Docs /\ JSONparse(outputFile)[i] = generated[i]

\* C2: once a write of the output file has finished and while no write is
\* between its truncation and its data, the file is the complete JSON text
\* of an array that is a snapshot (a prefix) of the results.
C2_OutputAlwaysParseableSnapshot ==
  (/\ \E i \in Docs : taskPc[i] = "done"
   /\ \A i \in Docs : taskPc[i] # "writing")
    => /\ IsJSONArray(outputFile)
       /\ IsPrefix(JSONparse(outputFile), questions)

\* C3: when every task has resolved and every write has finished, an output
\* file that parses has exactly one entry per input document.
C3_FinalOneEntryPerDocument ==
  (proc = "succeeded" /\ IsJSONArray(outputFile))
    => Len(JSONparse(outputFile)) = Len(documents)

\* C4: every parseable content of the output file shows the result of every
\* document whose result an earlier parseable content showed.
C4_VisibleResultsGrow ==
  IsJSONArray(outputFile) => observed \subseteq Visible(outputFile)

\* C5: when the run has ended with the completion call of exactly one
\* document failed, the output file holds the result of every other
\* document.
C5_FailureKeepsOtherResults ==
  (RunEnded /\ Cardinality(Failed) = 1)
    => \A i \in Docs \ Failed : i \in Visible(outputFile)

\* C6: a run that has terminated has printed its status line with the
\* counts of documents and of questions.
C6_AlwaysStatusLine ==
  RunEnded => /\ statusLine # NoStatus
              /\ statusLine.documents = Len(documents)

(***************************************************************************)
(* Properties of ingestion (checked under SpecIngest)                      *)
(***************************************************************************)
InRun == proc \in {"loading", "loaded"}

Returned == proc = "loaded"

\* C7: a run with the cache enabled, started after an earlier run stored
\* its cache entry and with no file added, removed or re-timestamped
\* since, never calls the loader and ends its lookup with a hit.
C7_UnchangedDirectoryHitsCache ==
  (InRun /\ optCache /\ sincePut = "same" /\ cacheWrites = 0)
    => /\ loaderCalls = 0
       /\ Returned => lookup = "hit"

\* C8: a run with the cache disabled computes no fingerprint, reads and
\* writes no cache file and leaves the cache files as they were; it
\* returns the documents loaded and preprocessed by one call of the loader.
C8_CacheDisabledNoCacheInteraction ==
  (InRun /\ ~optCache)
    => /\ hashCalls = 0
       /\ cacheReads = 0
       /\ cacheWrites = 0
       /\ tmp = tmpAtStart
       /\ Returned => /\ loaderCalls = 1
                      /\ documents = preProcessDocuments(Load(dir))

\* A run without the cache has returned documents while cache files exist.
C8_Witness ==
  /\ Returned
  /\ ~optCache
  /\ documents # <<>>
  /\ DOMAIN tmp # {}

C10_MissLoadsAndOverwrites ==
  (InRun /\ optCache)
    => /\ lookup = "hit"
            => /\ pathHash \in DOMAIN tmpAtStart
               /\ IsJSONArray(tmpAtStart[pathHash])
       /\ lookup = "unparseable"
            => /\ pathHash \in DOMAIN tmpAtStart
               /\ ~IsJSONArray(tmpAtStart[pathHash])
       /\ lookup = "missing" => pathHash \notin DOMAIN tmpAtStart
       /\ (Returned /\ lookup # "hit")
            => /\ loaderCalls = 1
               /\ pathHash \in DOMAIN tmp
               /\ IsJSONArray(tmp[pathHash])
               /\ tmp[pathHash]
                    = StringifyDocuments(preProcessDocuments(Load(dir)))
               /\ \A id \in DOMAIN tmpAtStart \ {pathHash} :
                    id \in DOMAIN tmp /\ tmp[id] = tmpAtStart[id]
               /\ documents = preProcessDocuments(Load(dir))

\* A run has returned documents after finding a torn entry under its
\* fingerprint.
C10_Witness ==
  /\ Returned
  /\ optCache
  /\ lookup = "unparseable"
  /\ documents # <<>>

\* C11: a run with the cache enabled whose cache write has failed is not
\* aborted: it goes on to return the documents it loaded and preprocessed.
C11_CachePutFailureNotFatal ==
  (optCache /\ loadPc = "putFailed") => proc \in {"loading", "loaded"}

\* The same files with the same modification times.
SameStamps(d1, d2) ==
  \A f \in FileIds : /\ d1[f].present = d2[f].present
                     /\ d1[f].mtime = d2[f].mtime

C13_FingerprintDeterministic ==
  hashCalls = 1 =>
    \A h \in DOMAIN putDir : SameStamps(putDir[h], dir) => pathHash = h

(***************************************************************************)
(* generateQuestions and preProcessDocuments as functions of strings       *)
(* (checked under SpecText)                                                *)
(***************************************************************************)
MaxLen == 4

\* The strings of at most n characters of chars.
Strings(chars, n) == UNION {[1..k -> chars] : k \in 0..n}

\* PROMPT_TEMPLATE, lines 49-50.  A string is a sequence of pieces: a piece
\* is a placeholder, or a stretch of other text.
PROMPT_TEMPLATE ==
  <<"Expert Question Generator, style of Gladwell & Pink. Analyze: \"",
    "{document}",
    "\", generate ",
    "{numQuestions}",
    " diverse, comprehensive questions, adjustable complexity, for students to professionals. Skip with a single \n. No answers.">>

DecimalDigits == <<"0", "1", "2", "3", "4", "5", "6", "7", "8", "9">>

\* Number.prototype.toString of a natural number: its decimal digits.
RECURSIVE NumberToString(_)
NumberToString(n) ==
  IF n < 10 THEN <<DecimalDigits[n + 1]>>
  ELSE NumberToString(n \div 10) \o <<DecimalDigits[(n % 10) + 1]>>

\* The first position of pattern in s, 0 when it does not occur.
RECURSIVE IndexOf(_, _, _)
IndexOf(s, pattern, from) ==
  IF from > Len(s) THEN 0
  ELSE IF s[from] = pattern THEN from
  ELSE IndexOf(s, pattern, from + 1)

\* The replacement text of String.prototype.replace: "$&" in it stands for
\* the matched text.
RECURSIVE ExpandReplacement(_, _)
ExpandReplacement(replacement, matched) ==
  IF replacement = <<>> THEN <<>>
  ELSE (IF Head(replacement) = "$&" THEN <<matched>> ELSE <<Head(replacement)>>)
       \o ExpandReplacement(Tail(replacement), matched)

\* s.replace(pattern, replacement) with a string pattern: the first
\* occurrence only, none when the pattern does not occur.
Replace(s, pattern, replacement) ==
  LET i == IndexOf(s, pattern, 1)
  IN  IF i = 0 THEN s
      ELSE SubSeq(s, 1, i - 1) \o ExpandReplacement(replacement, pattern)
           \o SubSeq(s, i + 1, Len(s))

\* Lines 283-286: the prompt of generateQuestions.
BuildPrompt(doc, n) ==
  Replace(Replace(PROMPT_TEMPLATE, "{document}", doc.pageContent),
          "{questions}", NumberToString(n))

\* The pieces a document's content is made of here: text, the texts of
\* the placeholders, and "$&".
PromptPieces == {"a", "{questions}", "{numQuestions}", "$&"}

Digits == {"1", "2"}

\* s.split("\n"): the segments between the newlines, one more than there
\* are newlines.
RECURSIVE Split(_)
Split(s) ==
  LET i == IndexOf(s, NL, 1)
  IN  IF i = 0 THEN <<s>>
      ELSE <<SubSeq(s, 1, i - 1)>> \o Split(SubSeq(s, i + 1, Len(s)))

\* The number of characters at the start of s that are in set.
RECURSIVE LeadingIn(_, _)
LeadingIn(s, set) ==
  IF s = <<>> \/ Head(s) \notin set THEN 0 ELSE 1 + LeadingIn(Tail(s), set)

\* A marker removal that removes nothing.
StripMarker_Keep(s) == s

\* s.replace(/^\d+\.\s+/, ""), line 294: digits, a dot and whitespace at
\* the start of s are removed, when all three are there.
StripMarker(s) ==
  LET d == LeadingIn(s, Digits)
      afterDot == SubSeq(s, d + 2, Len(s))
      w == LeadingIn(afterDot, {NL, SP})
  IN  IF d >= 1 /\ Len(s) > d /\ s[d + 1] = "." /\ w >= 1
      THEN SubSeq(afterDot, w + 1, Len(afterDot))
      ELSE s

\* Lines 288-297 on the string openai.call returned.
ParseCompletion(raw) ==
  LET segments == Split(raw)
      mapped == [k \in 1..Len(segments) |->
                   StripMarker(CollapseNewlines(Trim(segments[k])))]
  IN  SelectSeq(mapped, LAMBDA question : Len(question) > 0)

\* The examples: "1. q\n\n2. r\n" and "\n\n".
ExampleCompletions ==
  {<<"1", ".", SP, "q", NL, NL, "2", ".", SP, "r", NL>>, <<NL, NL>>}

CompletionStrings ==
  Strings({"1", ".", SP, NL, "q"}, MaxLen) \cup ExampleCompletions

\* Documents as the loaders make them, of any short content.
TextDocuments ==
  [pageContent : Strings({NL, SP, "a"}, MaxLen),
   metadata : {LoaderMetadata(f) : f \in FileIds}]

PromptDocuments ==
  [pageContent : Strings(PromptPieces, MaxLen - 1),
   metadata : {LoaderMetadata(FileNames[1])}]

\* generateQuestions builds its prompt for doc and target n.
ApplyBuildPrompt(doc, n) ==
  /\ applied = "none"
  /\ applied' = "prompt"
  /\ document' = doc
  /\ questionsPerDocument' = n
  /\ prompt' = BuildPrompt(doc, n)
  /\ UNCHANGED <<completion, parsedQuestions, preprocessed, batchVars,
                 ingestVars, taskVars, cliVars>>

\* generateQuestions parses what openai.call returned.
ApplyParse(raw) ==
  /\ applied = "none"
  /\ applied' = "parse"
  /\ completion' = raw
  /\ parsedQuestions' = ParseCompletion(raw)
  /\ UNCHANGED <<document, questionsPerDocument, prompt, preprocessed,
                 batchVars, ingestVars, taskVars, cliVars>>

\* preProcessDocuments is applied to a document.
ApplyPreprocess(doc) ==
  /\ applied = "none"
  /\ applied' = "preprocess"
  /\ document' = doc
  /\ preprocessed' = preProcessDocuments(<<doc>>)
  /\ UNCHANGED <<questionsPerDocument, completion, prompt, parsedQuestions,
                 batchVars, ingestVars, taskVars, cliVars>>

\* preProcessDocuments is applied to its own result.
ApplyPreprocessAgain ==
  /\ applied = "preprocess"
  /\ applied' = "preprocess twice"
  /\ preprocessed' = preProcessDocuments(preprocessed)
  /\ UNCHANGED <<document, questionsPerDocument, completion, prompt,
                 parsedQuestions, batchVars, ingestVars, taskVars, cliVars>>

InitText ==
  /\ proc = "idle"
  /\ documents = <<>>
  /\ taskPc = <<>>
  /\ generated = <<>>
  /\ payload = <<>>
  /\ questions = <<>>
  /\ promiseAll = "pending"
  /\ outputFile = <<>>
  /\ statusLine = NoStatus
  /\ observed = {}
  /\ IngestIdle
  /\ calls = <<>>
  /\ hung = {}
  /\ CliIdle
  /\ TextIdle

NextText ==
  \/ \E doc \in PromptDocuments, n \in 1..MaxQuestions : ApplyBuildPrompt(doc, n)
  \/ \E raw \in CompletionStrings : ApplyParse(raw)
  \/ \E doc \in TextDocuments : ApplyPreprocess(doc)
  \/ ApplyPreprocessAgain

SpecText == InitText /\ [][NextText]_vars

(***************************************************************************)
(* Properties of the functions (checked under SpecText)                    *)
(***************************************************************************)

\* C14: the prompt is the template with the document placeholder replaced
\* by the document's content and the question-count placeholder replaced
\* by the question target.
C14_PromptSubstitutesBoth ==
  applied = "prompt" =>
    prompt = <<PROMPT_TEMPLATE[1]>> \o document.pageContent
             \o <<PROMPT_TEMPLATE[3]>> \o NumberToString(questionsPerDocument)
             \o <<PROMPT_TEMPLATE[5]>>

RECURSIVE JoinLines(_)
JoinLines(segments) ==
  IF Len(segments) = 1 THEN segments[1]
  ELSE segments[1] \o <<NL>> \o JoinLines(Tail(segments))

\* t starts with d digits, a dot and exactly w whitespace characters.
HasMarker(t, d, w) ==
  /\ d + 1 + w <= Len(t)
  /\ \A i \in 1..d : t[i] \in Digits
  /\ t[d + 1] = "."
  /\ \A i \in (d + 2)..(d + 1 + w) : IsWhitespace(t[i])
  /\ d + 1 + w < Len(t) => ~IsWhitespace(t[d + 2 + w])

\* A segment trimmed, and without its marker when it starts with one.
CleanSegment(segment) ==
  LET t == Trim(segment)
      markers == {dw \in (1..Len(t)) \X (1..Len(t)) : HasMarker(t, dw[1], dw[2])}
  IN  IF markers = {} THEN t
      ELSE LET dw == CHOOSE dw \in markers : TRUE
           IN  SubSeq(t, dw[1] + dw[2] + 2, Len(t))

\* C15: the parser returns, in order, the newline-separated segments of
\* the completion, each trimmed and without its leading marker, leaving out
\* the empty ones and only those; no question is empty or starts or ends
\* with whitespace; the two examples give the results stated.
C15_ParserKeepsNonEmptySegments ==
  applied = "parse" =>
    LET segments == Split(completion)
        cleaned == [k \in 1..Len(segments) |-> CleanSegment(segments[k])]
    IN  /\ JoinLines(segments) = completion
        /\ \A k \in 1..Len(segments) :
             \A i \in 1..Len(segments[k]) : segments[k][i] # NL
        /\ parsedQuestions = SelectSeq(cleaned, LAMBDA c : c # <<>>)
        /\ \A k \in 1..Len(parsedQuestions) :
             /\ parsedQuestions[k] # <<>>
             /\ ~IsWhitespace(parsedQuestions[k][1])
             /\ ~IsWhitespace(parsedQuestions[k][Len(parsedQuestions[k])])
        /\ completion = <<"1", ".", SP, "q", NL, NL, "2", ".", SP, "r", NL>>
             => parsedQuestions = << <<"q">>, <<"r">> >>
        /\ completion = <<NL, NL>> => parsedQuestions = <<>>

\* The parser has returned the two questions of the first example.
C15_Witness ==
  /\ applied = "parse"
  /\ completion = <<"1", ".", SP, "q", NL, NL, "2", ".", SP, "r", NL>>
  /\ parsedQuestions = << <<"q">>, <<"r">> >>

\* C19: preprocessing the result of preprocessing gives that result again,
\* and preprocessing leaves the metadata of a document as it was.
C19_PreprocessIdempotent ==
  /\ applied = "preprocess twice"
       => preprocessed = preProcessDocuments(<<document>>)
  /\ applied \in {"preprocess", "preprocess twice"}
       => /\ Len(preprocessed) = 1
          /\ DOMAIN preprocessed[1] = DOMAIN document
          /\ preprocessed[1].metadata = document.metadata

\* Preprocessing has been applied twice to a document whose content it
\* changes both by collapsing newlines and by trimming.
C19_Witness ==
  /\ applied = "preprocess twice"
  /\ document.pageContent = <<SP, NL, NL, "a">>
  /\ preprocessed[1].pageContent = <<"a">>

(***************************************************************************)
(* The command line, option validation and one whole run                   *)
(* (checked under SpecCli)                                                 *)
(***************************************************************************)

\* What the command line may give for the options of register(), lines
\* 52-88: a value, an empty value or nothing for -d, -o and -k; the flags
\* -s and -c given or not.
CommandLines ==
  [directory : {Undefined, Str(""), Str("./data")},
   output : {Undefined, Str(""), Str("./questions.json")},
   key : {Undefined, Str("sk")},
   stream : BOOLEAN,
   cache : BOOLEAN]

\* The values of process.env.OPENAI_API_KEY.
EnvKeys == {Undefined, Str("sk-env")}

\* The value of a boolean option declared with a default (lines 74-78 and
\* 83-87): true when the flag is given, the default when it is not.
BooleanOption(given, default) == IF given THEN TRUE ELSE default

\* The options object of the command of register() for a command line.
ParseOptions(args) ==
  [directory |-> args.directory,
   output |-> args.output,
   key |-> args.key,
   stream |-> BooleanOption(args.stream, FALSE),
   cache |-> BooleanOption(args.cache, TRUE)]

\* !value of line 102, for an option value that is a string or undefined.
IsFalsy(v) == v.kind = "undefined" \/ v.s = ""

\* Lines 95-99.
REQUIRED_OPTIONS(env) ==
  IF env = Undefined THEN <<"directory", "output", "key">>
  ELSE <<"directory", "output">>

\* The required options that the loop of lines 101-107 finds missing.
MissingOptions(opts, env) ==
  SelectSeq(REQUIRED_OPTIONS(env), LAMBDA option : IsFalsy(opts[option]))

\* A validation that does not look at the stream option.
StreamRequested_Ignored(opts) == FALSE

\* The condition of line 109.
StreamRequested(opts) == opts.stream

MissingMessage(option) ==
  CASE option = "directory" ->
         "Missing required option: directory. See --help for more information."
    [] option = "output" ->
         "Missing required option: output. See --help for more information."
    [] option = "key" ->
         "Missing required option: key. See --help for more information."

StreamMessage ==
  "Streaming is not yet supported, please disable the --stream option."

\* The command line is parsed and execute is called with the options.
ParseCommandLine(args, env) ==
  /\ proc = "idle"
  /\ proc' = "parsed"
  /\ argv' = args
  /\ envKey' = env
  /\ options' = ParseOptions(args)
  /\ UNCHANGED <<errorMessage, documents, taskPc, generated, payload,
                 questions, promiseAll, outputFile, statusLine, observed,
                 ingestVars, taskVars, textVars>>

\* Lines 101-107: program.error for the first required option that is
\* missing; it prints the message and ends the process.
MissingRequiredOption ==
  /\ proc = "parsed"
  /\ MissingOptions(options, envKey) # <<>>
  /\ errorMessage' = MissingMessage(Head(MissingOptions(options, envKey)))
  /\ proc' = "exited"
  /\ UNCHANGED <<argv, envKey, options, documents, taskPc, generated, payload,
                 questions, promiseAll, outputFile, statusLine, observed,
                 ingestVars, taskVars, textVars>>

\* Lines 109-113: program.error for the stream option.
StreamNotSupported ==
  /\ proc = "parsed"
  /\ MissingOptions(options, envKey) = <<>>
  /\ StreamRequested(options)
  /\ errorMessage' = StreamMessage
  /\ proc' = "exited"
  /\ UNCHANGED <<argv, envKey, options, documents, taskPc, generated, payload,
                 questions, promiseAll, outputFile, statusLine, observed,
                 ingestVars, taskVars, textVars>>

\* Lines 115-129: validation has passed; the client is constructed and
\* loadDocuments is called with the options.
EnterLoadDocuments ==
  /\ proc = "parsed"
  /\ MissingOptions(options, envKey) = <<>>
  /\ ~StreamRequested(options)
  /\ proc' = "loading"
  /\ loadPc' = "start"
  /\ optCache' = options.cache
  /\ tmpAtStart' = tmp
  /\ UNCHANGED <<dir, tmp, pathHash, processedDocuments, lookup, loaderCalls,
                 cacheReads, cacheWrites, hashCalls, putDocs, putDir, sincePut,
                 events, documents, taskPc, generated, payload, questions,
                 promiseAll, outputFile, statusLine, observed, taskVars,
                 cliVars, textVars>>

\* The directory of the run: one file.
CliDirectory ==
  [f \in FileIds |->
     IF f = FileNames[1]
     THEN [present |-> TRUE, mtime |-> 1, content |-> <<NL, "a", NL, NL, "b", SP>>]
     ELSE Absent]

\* The cache files when the run starts: none, or the entry an earlier run
\* left for the directory as glob enumerated it then.
CliCaches ==
  {NoFiles,
   cacheTMP(NoFiles,
            getDirectoryHash(CliDirectory,
                             CHOOSE files \in Enumerations(CliDirectory) : TRUE),
            StringifyDocuments(preProcessDocuments(Load(CliDirectory))))}

InitCli ==
  /\ proc = "idle"
  /\ documents = <<>>
  /\ taskPc = <<>>
  /\ generated = <<>>
  /\ payload = <<>>
  /\ questions = <<>>
  /\ promiseAll = "pending"
  /\ outputFile = <<>>
  /\ statusLine = NoStatus
  /\ observed = {}
  /\ optCache = TRUE
  /\ dir = CliDirectory
  /\ tmp \in CliCaches
  /\ loadPc = "idle"
  /\ pathHash = <<>>
  /\ processedDocuments = <<>>
  /\ lookup = "none"
  /\ loaderCalls = 0
  /\ cacheReads = 0
  /\ cacheWrites = 0
  /\ hashCalls = 0
  /\ tmpAtStart = NoFiles
  /\ putDocs = NoFiles
  /\ putDir = NoFiles
  /\ sincePut = "none"
  /\ events = 0
  /\ calls = <<>>
  /\ hung = {}
  /\ CliIdle
  /\ TextIdle

\* One run from the command line to its end.  ParseOptions gives
\* options.cache = TRUE for every command line, so the branch of lines
\* 242-244 (LoadWithoutCache) is not among the steps a run can take.
NextCli ==
  \/ \E args \in CommandLines, env \in EnvKeys : ParseCommandLine(args, env)
  \/ MissingRequiredOption
  \/ StreamNotSupported
  \/ EnterLoadDocuments
  \/ \E files \in Enumerations(dir) : ComputeHash(files)
  \/ CacheHit
  \/ CacheMiss
  \/ LoadAndPreprocess
  \/ CachePut
  \/ CachePutFails
  \/ LaunchGeneration
  \/ \E i \in Docs : \E raw \in RawCompletions(i) : CompletionReturns(i, raw)
  \/ \E i \in Docs : CompletionFails(i)
  \/ \E i \in Docs : WriteOpen(i)
  \/ \E i \in Docs : WriteData(i)
  \/ Succeed
  \/ UnhandledRejection

SpecCli == InitCli /\ [][NextCli]_vars

(***************************************************************************)
(* Properties of the command line (checked under SpecCli)                  *)
(***************************************************************************)

C17_CacheFlagDisablesCache ==
  proc # "idle" =>
    /\ options.cache = ~argv.cache
    /\ (argv.cache /\ loadPc = "returned")
         => hashCalls = 0 /\ loaderCalls = 1

(***************************************************************************)
(* The batch runner when a completion call never settles                   *)
(* (checked under SpecHung)                                                *)
(***************************************************************************)

\* As Init, with at most one document whose openai.call never settles.
InitHung ==
  /\ proc = "loaded"
  /\ documents \in DocumentSets
  /\ taskPc = [i \in Docs |-> "idle"]
  /\ generated = [i \in Docs |-> <<>>]
  /\ payload = [i \in Docs |-> <<>>]
  /\ questions = <<>>
  /\ promiseAll = "pending"
  /\ outputFile = <<>>
  /\ statusLine = NoStatus
  /\ observed = {}
  /\ IngestIdle
  /\ calls = [i \in Docs |-> 0]
  /\ hung \in {h \in SUBSET Docs : Cardinality(h) <= 1}
  /\ CliIdle
  /\ TextIdle

\* The call of callback i settles: it returns or it fails.
CallSettles(i) ==
  /\ i \in Docs \ hung
  /\ \/ \E raw \in RawCompletions(i) : CompletionReturns(i, raw)
     \/ CompletionFails(i)

NextHung ==
  \/ LaunchGeneration
  \/ \E i \in Docs \ hung : \E raw \in RawCompletions(i) : CompletionReturns(i, raw)
  \/ \E i \in Docs \ hung : CompletionFails(i)
  \/ \E i \in Docs : WriteOpen(i)
  \/ \E i \in Docs : WriteData(i)
  \/ Succeed
  \/ UnhandledRejection

\* The event loop runs every continuation that is ready, the file system
\* finishes the operations it was given, and every call that is not hung
\* settles.  Nothing is assumed about when an unhandled rejection ends the
\* process.
FairnessHung ==
  /\ WF_vars(LaunchGeneration)
  /\ WF_vars(Succeed)
  /\ \A i \in 1..MaxFiles :
       /\ WF_vars(CallSettles(i))
       /\ WF_vars(i \in Docs /\ WriteOpen(i))
       /\ WF_vars(i \in Docs /\ WriteData(i))

SpecHung == InitHung /\ [][NextHung]_vars /\ FairnessHung

\* The questions of document i are in the results and a write of the
\* output file whose data contain them has been issued.
Issued(i) ==
  /\ taskPc[i] \in {"opening", "writing", "done"}
  /\ \E k \in 1..Len(questions) : questions[k] = generated[i]
  /\ IsJSONArray(payload[i])
  /\ \E k \in 1..Len(JSONparse(payload[i])) :
       JSONparse(payload[i])[k] = generated[i]

\* C18: whether or not the call of another document is hung, the call of
\* every document that is not hung, once made, leads to its questions being
\* in the results and a write containing them being issued, unless a call
\* has failed; a run with a hung call never finishes.
C18_HungCallBlocksNoOther ==
  /\ \A i \in 1..MaxFiles :
       (i \in Docs \ hung /\ proc = "generating" /\ taskPc[i] = "calling")
         ~> (i \in Docs /\ (Issued(i) \/ Failed # {}))
  /\ [](hung # {} => proc # "succeeded")

\* With a call hung and none failed, another document's write has finished.
C18_Witness ==
  /\ hung # {}
  /\ \A h \in hung : taskPc[h] = "calling"
  /\ Failed = {}
  /\ \E i \in Docs \ hung : taskPc[i] = "done" /\ Issued(i)

(***************************************************************************)
(* Further properties of the batch runner (checked under Spec)             *)
(***************************************************************************)

\* What holds of the results and of the payloads in a state.
ResultsConsistent ==
  /\ Len(questions) <= Len(documents)
  /\ Len(questions) = Cardinality(Completed)
  /\ \A i \in Docs : /\ calls[i] <= 1
                     /\ taskPc[i] # "idle" => calls[i] = 1
  /\ \A i \in Completed :
       /\ IsJSONArray(payload[i])
       /\ LET k == Len(JSONparse(payload[i]))
          IN  /\ k \in 1..Len(questions)
              /\ questions[k] = generated[i]
              /\ JSONparse(payload[i]) = SubSeq(questions, 1, k)
  /\ \A i, j \in Completed :
       i # j => Len(JSONparse(payload[i])) # Len(JSONparse(payload[j]))

\* What holds of every step: the results only grow at their end, a call
\* count never decreases and an issued payload never changes.
ResultsOnlyAppended ==
  /\ IsPrefix(questions, questions')
  /\ \A i \in Docs :
       /\ calls'[i] >= calls[i]
       /\ i \in Completed => payload'[i] = payload[i] /\ generated'[i] = generated[i]

\* C20: the results have at most one entry per document and as many as
\* documents have completed; each document's call is made once; each
\* issued payload is the results up to and including that document's
\* entry, so that any two payloads are one a strict prefix of the other;
\* and no step removes or changes an entry or a payload.
C20_ResultsAndPayloadChain ==
  []ResultsConsistent /\ [][ResultsOnlyAppended]_vars

\* Two documents have completed and both writes have finished.
C20_Witness ==
  /\ Len(documents) = 2
  /\ Len(questions) = 2
  /\ \A i \in Docs : taskPc[i] = "done"
  /\ questions[1] # questions[2]

=============================================================================
